---- MODULE Spec2Model ----
(***************************************************************************)
(* The module registry of the debugger (class Modules) and the symbol      *)
(* reader it drives (class SymbolReader), as a state machine.               *)
(*                                                                         *)
(* Every operation of Modules is run by a thread in steps: the code before *)
(* the registry lock is taken, the acquisition of the lock, and the        *)
(* critical section together with the release of the lock, the code after  *)
(* it and the return.  `ret' is the value returned by the step just taken  *)
(* (NoRet when the step returned from no operation); the answers of the    *)
(* target process and of the managed symbol reader are drawn               *)
(* nondeterministically and kept in `ret' beside the result they led to.   *)
(*                                                                         *)
(* Spec runs every operation on every thread, with a target and a symbol   *)
(* reader that answer the queries of the lookups; SpecSeq runs one thread  *)
(* against every answer they can give; SpecNearest applies the scan of     *)
(* GetFrameILAndSequencePoint to every table of sequence points;           *)
(* SpecModuleId applies the formatting of GetModuleId to identities of     *)
(* modules; SpecLive runs the threads on the calls about one module, with  *)
(* threads that block on the lock, calls that return and a fair lock.      *)
(***************************************************************************)
EXTENDS Integers, Sequences, FiniteSets, TLC

\* ------------------------------------------------------------------ bounds

\* Threads of the debugger that call into Modules.
NumThreads == 2
\* Distinct base addresses at which the target maps modules.
NumAddr == 2
\* Module objects of the target; those past NumAddr are mapped at an address
\* another module object is (or was) mapped at.
NumModules == 3
\* Symbol reader handles the managed side hands out (successful loads).
MaxHandle == 2

Threads == 1..NumThreads
Addresses == 1..NumAddr
\* The module handles (ICorDebugModule *).
Modules == 1..NumModules

\* ---------------------------------------------------------------- HRESULTs

S_OK == "S_OK"
E_FAIL == "E_FAIL"
E_OUTOFMEMORY == "E_OUTOFMEMORY"

FAILED(hr) == hr # S_OK
SUCCEEDED(hr) == hr = S_OK

\* ----------------------------------------------------------- the target

\* ICorDebugModule::GetBaseAddress of a module handle, when it succeeds.
BaseOf(m) == ((m - 1) % NumAddr) + 1

\* The file name part of the module's path (GetFileName(GetModuleFileName(m))):
\* the same file may be mapped at several addresses.
NameOf(m) == (m + 1) \div 2

\* Module::symbolStatus
SymbolsSkipped == "SymbolsSkipped"
SymbolsLoaded == "SymbolsLoaded"
SymbolsNotFound == "SymbolsNotFound"

\* ------------------------------------------------------------------- state

VARIABLES
    m_modulesInfo,      \* Modules::m_modulesInfo, in iteration order: <<[addr, symbols, module]>>
    m_modulesInfoMutex, \* Modules::m_modulesInfoMutex: the thread holding it, or NoThread
    pc,                 \* per thread: "idle", "prepare" (in PrepareSymbolReader, past the test
                        \* of the latch), "wait" (before the lock), "cs" (holding it), "aborted"
    call,               \* per thread: the operation it runs, with its arguments and locals
    ret,                \* what the step just taken returned to its caller, or NoRet
    attemptedSymbolReaderPreparation, \* the static latch of PrepareSymbolReader
    delegates,          \* the static delegates of SymbolReader that are bound (non-null)
    nextHandle,         \* the next handle LoadSymbolsForModule hands out
    prepareFailed,      \* history: a run of the body of PrepareSymbolReader returned a failure
    disposed,           \* history: handles whose SymbolReader was destroyed
    refs,               \* per module handle: the references Modules took (AddRef) and
                        \* neither released nor handed to a caller
    registered,         \* history, per address: the module of the last TryLoadModuleSymbols
                        \* call for a module at the address that returned S_OK since the
                        \* last CleanupAllModules, or NoModule
    loadedAt,           \* history: the addresses whose entry was inserted by a call that set
                        \* symbolStatus to SymbolsLoaded
    sinceClear,         \* history: CleanupAllModules returned and no insertion was made since
    cleared             \* history: while sinceClear, the addresses whose entry was removed

vars == <<m_modulesInfo, m_modulesInfoMutex, pc, call, ret,
          attemptedSymbolReaderPreparation, delegates, nextHandle, prepareFailed,
          disposed, refs, registered, loadedAt, sinceClear, cleared>>

NoThread == 0
NoModule == 0
NoRet == [op |-> "none"]
Idle == [op |-> "idle"]

\* ------------------------------------------------------- SymbolReader statics

\* The delegates PrepareSymbolReader binds, in the order it binds them.
DelegateOrder ==
    << "loadSymbolsForModuleDelegate", "disposeDelegate", "resolveSequencePointDelegate",
       "getLocalVariableNameAndScopeDelegate", "getLineByILOffsetDelegate",
       "getStepRangesFromIPDelegate", "getSequencePointsDelegate",
       "parseExpressionDelegate", "evalExpressionDelegate", "registerGetChildDelegate" >>

NumDelegates == Len(DelegateOrder)

\* The delegates bound once the first k createDelegate calls have succeeded.
BoundAfter(k) == { DelegateOrder[i] : i \in 1..k }

\* The createDelegate calls of PrepareSymbolReader at which the environment makes
\* it fail: the first (nothing is bound) and the second (only
\* LoadSymbolsForModule is bound).
CreateDelegateFailures == {1, 2}

\* The body of SymbolReader::PrepareSymbolReader, past the test of the latch: the
\* outcomes it can have.  It sets the latch; it fails before it binds anything
\* (coreclr not loaded, a symbol not found, ..., which leaves what a failure of the
\* first createDelegate leaves), at a createDelegate call (the earlier delegates
\* stay bound), at registerGetChildDelegate (all are bound), or succeeds.  ran says
\* that the body ran.
PrepareSymbolReaderBody(dels) ==
    { [hr |-> E_FAIL, attempted |-> TRUE, delegates |-> dels \cup BoundAfter(k - 1),
       ran |-> TRUE] : k \in CreateDelegateFailures \cup {NumDelegates + 1} }
    \cup { [hr |-> S_OK, attempted |-> TRUE, delegates |-> dels \cup BoundAfter(NumDelegates),
            ran |-> TRUE] }

\* SymbolReader::PrepareSymbolReader, for a thread that reads `attempted' from the
\* latch.
PrepareSymbolReader(attempted, dels) ==
    IF attempted
    THEN { [hr |-> E_FAIL, attempted |-> TRUE, delegates |-> dels, ran |-> FALSE] }
    ELSE PrepareSymbolReaderBody(dels)

\* SymbolReader::SymbolReader: a new reader holds no handle.
NewSymbolReader == 0

\* SymbolReader::LoadSymbolsForPortablePDB on a new reader, from the return of
\* PrepareSymbolReader (or from the test that skips it) on: `preps' are the
\* outcomes up to there, `fresh' is the set of handles the managed
\* LoadSymbolsForModule can return besides 0.  prepareHr is what the body of
\* PrepareSymbolReader returned if the call ran it.
LoadSymbolsForModule(preps, fresh) ==
    UNION { IF FAILED(p.hr)
            THEN { [hr |-> p.hr, handle |-> NewSymbolReader, attempted |-> p.attempted,
                    delegates |-> p.delegates, ran |-> p.ran, prepareHr |-> p.hr] }
            ELSE { [hr |-> IF h = 0 THEN E_FAIL ELSE S_OK, handle |-> h,
                    attempted |-> p.attempted, delegates |-> p.delegates,
                    ran |-> p.ran, prepareHr |-> p.hr] :
                        h \in {0} \cup fresh }
          : p \in preps }

\* SymbolReader::LoadSymbolsForPortablePDB on a new reader.
LoadSymbolsForPortablePDB(attempted, dels, fresh) ==
    LoadSymbolsForModule(
        IF "loadSymbolsForModuleDelegate" \in dels
        THEN { [hr |-> S_OK, attempted |-> attempted, delegates |-> dels, ran |-> FALSE] }
        ELSE PrepareSymbolReader(attempted, dels),
        fresh)

\* What ICorDebugModule::IsDynamic and IsInMemory say of a module handle: of every
\* three modules one is loaded from a file, one is in memory, one is dynamic (and
\* in memory).
IsInMemory(m) == m % 3 # 1
IsDynamic(m) == m % 3 = 0

\* What the target answers to SymbolReader::LoadSymbols about module m: its queries
\* succeed or one of them fails.
LoadEnv(m) == [targetOk : BOOLEAN, isDynamic : {IsDynamic(m)}, isInMemory : {IsInMemory(m)}]

\* SymbolReader::LoadSymbols on a new reader.
LoadSymbols(env, attempted, dels, fresh) ==
    IF ~env.targetOk \/ env.isDynamic
    THEN { [hr |-> E_FAIL, handle |-> NewSymbolReader, attempted |-> attempted,
            delegates |-> dels, ran |-> FALSE, prepareHr |-> "none"] }
    ELSE LoadSymbolsForPortablePDB(attempted, dels, fresh)

\* SymbolReader::SymbolsLoaded
SymbolsLoadedP(handle) == handle # 0

\* A reader that is dropped with its handle left open: C24 does not hold of it.
DisposeNot(handle) == {}

\* SymbolReader::~SymbolReader: the handles disposed when a reader is destroyed.
Dispose(handle) == IF handle # 0 THEN {handle} ELSE {}

\* --------------------------------------------------------- the registry map

Keys(map) == { map[i].addr : i \in 1..Len(map) }

\* m_modulesInfo.find(addr): the index of the entry, 0 for end().
Find(map, addr) ==
    IF \E i \in 1..Len(map) : map[i].addr = addr
    THEN CHOOSE i \in 1..Len(map) : map[i].addr = addr
    ELSE 0

InsertAt(s, i, e) == SubSeq(s, 1, i - 1) \o <<e>> \o SubSeq(s, i, Len(s))

\* An insert that drops the entries of the other keys: C8 does not hold of it.
MapInsertAlone(map, e) == { <<e>> }

\* An insert that adds a second entry under a key: C9 does not hold of it.
MapInsertAgain(map, e) == { Append(map, e) }

\* m_modulesInfo.insert(std::make_pair(addr, mdInfo)): the maps it can leave.  An
\* entry with the key is kept as it is; a new entry takes a place in the iteration
\* order that the container chooses.
MapInsert(map, e) ==
    IF e.addr \in Keys(map)
    THEN { map }
    ELSE { InsertAt(map, i, e) : i \in 1..(Len(map) + 1) }

\* A clear() that removes nothing: C4 does not hold of it.
MapClearKeep(map) == map

\* m_modulesInfo.clear()
MapClear(map) == << >>

HandlesOf(map) == { map[i].symbols : i \in 1..Len(map) } \ {0}

\* The entries of the map that hold module m.
Held(map, m) == Cardinality({ i \in 1..Len(map) : map[i].module = m })

\* ------------------------------------------------- references to the modules

\* pModule->AddRef()
AddRef(counts, m) == [counts EXCEPT ![m] = @ + 1]

\* A destructor that leaves the reference of the module in place: C20 does not
\* hold of it.
ReleaseNot(counts, m) == counts

\* ~ToRelease<ICorDebugModule>: Release() of the module a ModuleInfo holds.
Release(counts, m) == [counts EXCEPT ![m] = @ - 1]

\* The counts once the entries of `map' that are not in `kept' are destroyed.
ReleaseRemoved(counts, map, kept) ==
    [m \in Modules |-> counts[m] - (Held(map, m) - Held(kept, m))]


\* ------------------------------------------------ the answers of the environment

\* `full' chooses the answers the target and the managed symbol reader may give to
\* the queries of a lookup: every answer, or success only.
Hr2(full) == IF full THEN {S_OK, E_FAIL} ELSE {S_OK}
Hr3(full) == IF full THEN {S_OK, E_FAIL, E_OUTOFMEMORY} ELSE {S_OK}

\* ------------------------------------------------- SymbolReader: the queries

\* The outcome of a query whose delegate is null on a reader that holds a handle:
\* _ASSERTE fails, or the null delegate is called; the process dies.
ABORT == "ABORT"

\* The shape the queries share: without a handle E_FAIL; else the delegate is
\* asserted to be bound and called, and `answer' is what the method makes of it.
Query(handle, dels, delegate, answer) ==
    IF handle # 0
    THEN IF delegate \notin dels THEN ABORT ELSE answer
    ELSE E_FAIL

\* SymbolReader::ResolveSequencePoint; answer: S_OK, or E_FAIL (the delegate
\* returned FALSE).
ResolveSequencePoint(handle, dels, answer) ==
    Query(handle, dels, "resolveSequencePointDelegate", answer)

\* SymbolReader::GetLineByILOffset; answer: S_OK, E_OUTOFMEMORY (the string was not
\* allocated), or E_FAIL (the delegate returned FALSE, or line 0).
GetLineByILOffset(handle, dels, answer) ==
    Query(handle, dels, "getLineByILOffsetDelegate", answer)

\* SymbolReader::GetStepRangesFromIP
GetStepRangesFromIP(handle, dels, answer) ==
    Query(handle, dels, "getStepRangesFromIPDelegate", answer)

\* SymbolReader::GetSequencePoints
GetSequencePoints(handle, dels, answer) ==
    Query(handle, dels, "getSequencePointsDelegate", answer)

\* SymbolReader::GetNamedLocalVariableAndScope; answer: S_OK, E_OUTOFMEMORY, or
\* E_FAIL (the delegate returned FALSE, or the frame has no such local).
GetNamedLocalVariableAndScope(handle, dels, answer) ==
    Query(handle, dels, "getLocalVariableNameAndScopeDelegate", answer)

\* The handle a query passes to its delegate: m_symbolReaderHandle, unless the
\* reader holds none and the query returns before the delegate.
Queried(handle) == IF handle # 0 THEN {handle} ELSE {}

\* ------------------------------------------ Modules: the bodies of the lookups

\* What GetLocationInAny has written when it starts: nothing.  token and fullname
\* name the reader (by its handle) that wrote methodToken and ilOffset, and
\* fullname; module is *ppModule; queried holds the handles the call passed to the
\* delegates, addRefs the modules it called AddRef on.
NoLocation == [hr |-> E_FAIL, token |-> 0, fullname |-> 0, module |-> NoModule,
               queried |-> {}, addRefs |-> << >>]

\* The loop of GetLocationInAny from entry i on; ans[i] holds the answers to
\* GetBaseAddress, ResolveSequencePoint and GetLineByILOffset at entry i.
RECURSIVE GetLocationInAnyFrom(_, _, _, _, _)
GetLocationInAnyFrom(map, ans, dels, i, out) ==
    IF i > Len(map)
    THEN [out EXCEPT !.hr = E_FAIL]
    ELSE LET mdInfo == map[i]
             rs == ResolveSequencePoint(mdInfo.symbols, dels, ans[i].resolve)
             gl == GetLineByILOffset(mdInfo.symbols, dels, ans[i].line)
             asked == [out EXCEPT !.queried = @ \cup Queried(mdInfo.symbols)]
             resolved == [asked EXCEPT !.token = mdInfo.symbols]
         IN  IF FAILED(ans[i].addr) THEN [out EXCEPT !.hr = ans[i].addr]
             ELSE IF rs = ABORT THEN [asked EXCEPT !.hr = ABORT]
             ELSE IF FAILED(rs) THEN GetLocationInAnyFrom(map, ans, dels, i + 1, asked)
             ELSE IF gl = ABORT THEN [resolved EXCEPT !.hr = ABORT]
             ELSE IF FAILED(gl) THEN GetLocationInAnyFrom(map, ans, dels, i + 1, resolved)
             ELSE [resolved EXCEPT !.hr = S_OK, !.fullname = mdInfo.symbols,
                                   !.addRefs = Append(@, mdInfo.module),
                                   !.module = mdInfo.module]

GetLocationInAny(map, ans, dels) == GetLocationInAnyFrom(map, ans, dels, 1, NoLocation)

\* The critical section of GetLocationInModule on the entry found at index i, and
\* what follows it; ans holds the answers to ResolveSequencePoint and
\* GetLineByILOffset.
GetLocationInModule(map, i, ans, dels) ==
    LET rs == ResolveSequencePoint(map[i].symbols, dels, ans.resolve)
        gl == GetLineByILOffset(map[i].symbols, dels, ans.line)
        asked == [NoLocation EXCEPT !.queried = Queried(map[i].symbols)]
        resolved == [asked EXCEPT !.token = map[i].symbols]
    IN  IF i = 0 THEN NoLocation
        ELSE IF rs = ABORT THEN [asked EXCEPT !.hr = ABORT]
        ELSE IF FAILED(rs) THEN [asked EXCEPT !.hr = rs]
        ELSE IF gl = ABORT THEN [resolved EXCEPT !.hr = ABORT]
        ELSE IF FAILED(gl) THEN [resolved EXCEPT !.hr = gl]
        ELSE [resolved EXCEPT !.hr = S_OK, !.fullname = map[i].symbols]

\* The loop of GetModuleWithName from entry i on; names[i] is the file name
\* GetModuleFileName and GetFileName yield for entry i ("" when the name cannot
\* be read).
RECURSIVE GetModuleWithNameFrom(_, _, _, _)
GetModuleWithNameFrom(map, names, name, i) ==
    IF i > Len(map) THEN [hr |-> E_FAIL, module |-> NoModule, addRefs |-> << >>]
    ELSE IF names[i] = name
    THEN [hr |-> S_OK, module |-> map[i].module, addRefs |-> << map[i].module >>]
    ELSE GetModuleWithNameFrom(map, names, name, i + 1)

GetModuleWithName(map, names, name) == GetModuleWithNameFrom(map, names, name, 1)

\* The modules of the first n entries, in iteration order.
ModulesOf(map, n) == [j \in 1..n |-> map[j].module]

\* The loop of ForEachModule from entry i on; cbs[i] is what the callback returns
\* for entry i, calls are the modules the callback was called with.
RECURSIVE ForEachModuleFrom(_, _, _)
ForEachModuleFrom(map, cbs, i) ==
    IF i > Len(map)
    THEN [hr |-> S_OK, visited |-> Len(map), calls |-> ModulesOf(map, Len(map))]
    ELSE IF FAILED(cbs[i]) THEN [hr |-> cbs[i], visited |-> i, calls |-> ModulesOf(map, i)]
    ELSE ForEachModuleFrom(map, cbs, i + 1)

\* A loop that goes on after a failing callback and returns S_OK: C17 does not
\* hold of it.
ForEachModuleToEnd(map, cbs) ==
    [hr |-> S_OK, visited |-> Len(map), calls |-> ModulesOf(map, Len(map))]

ForEachModule(map, cbs) == ForEachModuleFrom(map, cbs, 1)

\* The scan of GetFrameILAndSequencePoint over the sequence points.  A point is
\* [offset, startLine]; offset is an int32_t, the current offset a ULONG32.
OffsetBits == 3
ULONG32 == 0..(2^OffsetBits - 1)
\* static_cast<int32_t>(ilOffset)
ToInt32(u) == IF u >= 2^(OffsetBits - 1) THEN u - 2^OffsetBits ELSE u
\* the conversion of an int32_t to ULONG32 that `p.offset == ilOffset' makes
ToULONG32(n) == n % 2^OffsetBits

\* p.offset < static_cast<int32_t>(ilOffset)
IsBefore(p, ilOffset) == p.offset < ToInt32(ilOffset)
\* A scan that never takes a point for being at the current offset: C1 does not
\* hold of it.
IsAtNever(p, ilOffset) == FALSE

\* p.offset == ilOffset
IsAt(p, ilOffset) == ToULONG32(p.offset) = ilOffset

\* The loop from points[i] on.  nearestPoint is a reference to points.front():
\* `nearestPoint = p' assigns p to points[1], which is what `points' becomes.
RECURSIVE NearestScan(_, _, _)
NearestScan(points, i, ilOffset) ==
    IF i > Len(points) THEN points
    ELSE LET p == points[i]
         IN  IF IsBefore(p, ilOffset)
             THEN NearestScan([points EXCEPT ![1] = p], i + 1, ilOffset)
             ELSE IF IsAt(p, ilOffset) THEN [points EXCEPT ![1] = p]
             ELSE points

\* nearestPoint after the loop, for a table that is not empty.
NearestPoint(points, ilOffset) == NearestScan(points, 1, ilOffset)[1]

\* An end offset that is never widened: C3 does not hold of it.
StepRangeEndKept(ilStartOffset, ilEndOffset, codeSize) == ilEndOffset

\* The end offset of the range of GetStepRangeFromCurrentIP once the provider has
\* answered and the size of the code is known.
StepRangeEnd(ilStartOffset, ilEndOffset, codeSize) ==
    IF ilStartOffset = ilEndOffset THEN codeSize ELSE ilEndOffset

\* ----------------------------------------------------------- the initial state

\* After Modules is constructed: an empty registry, a free lock, no delegate bound.
Init ==
    /\ m_modulesInfo = << >>
    /\ m_modulesInfoMutex = NoThread
    /\ pc = [t \in Threads |-> "idle"]
    /\ call = [t \in Threads |-> Idle]
    /\ ret = NoRet
    /\ attemptedSymbolReaderPreparation = FALSE
    /\ delegates = {}
    /\ nextHandle = 1
    /\ prepareFailed = FALSE
    /\ disposed = {}
    /\ refs = [m \in Modules |-> 0]
    /\ registered = [a \in Addresses |-> NoModule]
    /\ loadedAt = {}
    /\ sinceClear = FALSE
    /\ cleared = {}

\* No thread has brought the process down.
Running == \A t \in Threads : pc[t] # "aborted"

statics == <<attemptedSymbolReaderPreparation, delegates>>
history == <<registered, loadedAt, sinceClear, cleared>>
registry == <<m_modulesInfo, statics, nextHandle, prepareFailed, disposed, refs, history>>

\* ------------------------------------------------------ the steps of a thread

\* std::lock_guard's constructor, for a thread that found the lock taken or was
\* not scheduled between the code before the lock and the lock.
Lock(t) ==
    /\ Running
    /\ pc[t] = "wait"
    /\ m_modulesInfoMutex = NoThread
    /\ m_modulesInfoMutex' = t
    /\ pc' = [pc EXCEPT ![t] = "cs"]
    /\ ret' = NoRet
    /\ UNCHANGED <<call, registry>>

\* A critical section entered without the lock: C15 does not hold of it.
AcquireUnlocked(t, c) ==
    /\ m_modulesInfoMutex' = m_modulesInfoMutex
    /\ pc' = [pc EXCEPT ![t] = "cs"]
    /\ call' = [call EXCEPT ![t] = c]
    /\ ret' = NoRet

\* std::lock_guard's constructor at the end of a step that ran the code before it:
\* the thread enters the critical section of operation c.
Acquire(t, c) ==
    /\ m_modulesInfoMutex = NoThread
    /\ m_modulesInfoMutex' = t
    /\ pc' = [pc EXCEPT ![t] = "cs"]
    /\ call' = [call EXCEPT ![t] = c]
    /\ ret' = NoRet

\* A return that leaves the lock with the thread: C21 does not hold of it.
ReturnLocked(t, r) ==
    /\ m_modulesInfoMutex' = t
    /\ pc' = [pc EXCEPT ![t] = IF r.hr = ABORT THEN "aborted" ELSE "idle"]
    /\ call' = [call EXCEPT ![t] = Idle]
    /\ ret' = r

\* The return of r before the lock was taken.
ReturnEarly(t, r) ==
    /\ ret' = r
    /\ UNCHANGED <<m_modulesInfoMutex, pc, call>>

\* The end of the critical section and the return of r; a thread that aborts
\* brings the process down with the lock held.
Return(t, r) ==
    /\ m_modulesInfoMutex' = IF r.hr = ABORT THEN t ELSE NoThread
    /\ pc' = [pc EXCEPT ![t] = IF r.hr = ABORT THEN "aborted" ELSE "idle"]
    /\ call' = [call EXCEPT ![t] = Idle]
    /\ ret' = r

\* ------------------------------------------------------- TryLoadModuleSymbols

\* A status that is SymbolsLoaded whatever LoadSymbols left: C9 does not hold of it.
SymbolStatusAlwaysLoaded(symbolsLoaded) == SymbolsLoaded

\* module.symbolStatus once LoadSymbols has run
SymbolStatusOf(symbolsLoaded) == IF symbolsLoaded THEN SymbolsLoaded ELSE SymbolsNotFound

\* A rejected module reported as one whose symbols were not found: C10 does not
\* hold of it.
SymbolStatusRejectedNotFound == SymbolsNotFound

\* module.symbolStatus when ShouldLoadSymbolsForModule rejects the path
SymbolStatusRejected == SymbolsSkipped

\* The handles the managed LoadSymbolsForModule can still hand out.
Fresh(next) == IF next <= MaxHandle THEN {next} ELSE {}

\* The code of TryLoadModuleSymbols from the return of LoadSymbols to the lock:
\* the outcomes it can have, where `loads' are the outcomes of LoadSymbols.  stage
\* is where it stops: at the identity of the module (GetModuleId, GetBaseAddress
\* or GetSize fails: each returns the failure and destroys the reader), or at the
\* lock.
TryLoadModuleSymbolsLoaded(loads) ==
    { [stage |-> s, hr |-> IF s = "lock" THEN S_OK ELSE E_FAIL,
       symbols |-> o.handle, symbolStatus |-> SymbolStatusOf(SymbolsLoadedP(o.handle)),
       shouldLoad |-> TRUE, loadCalls |-> 1, loadHr |-> o.hr,
       attempted |-> o.attempted, delegates |-> o.delegates,
       ran |-> o.ran, prepareHr |-> o.prepareHr] :
           s \in {"identity", "lock"}, o \in loads }

\* The code of TryLoadModuleSymbols before the lock: the outcomes it can have.
\* stage is where it stops: at the metadata of the module, at the identity of the
\* module, or at the lock.
TryLoadModuleSymbolsPre(m, attempted, dels, fresh) ==
    LET unloaded(status, shouldLoad) ==
            [symbols |-> NewSymbolReader, symbolStatus |-> status, shouldLoad |-> shouldLoad,
             loadCalls |-> 0, loadHr |-> "none", attempted |-> attempted, delegates |-> dels,
             ran |-> FALSE, prepareHr |-> "none"]
    IN  { [stage |-> "metadata", hr |-> E_FAIL] @@ unloaded("unset", FALSE) }
        \cup { [stage |-> s, hr |-> IF s = "lock" THEN S_OK ELSE E_FAIL]
                   @@ unloaded(SymbolStatusRejected, FALSE) : s \in {"identity", "lock"} }
        \cup TryLoadModuleSymbolsLoaded(
                 UNION { LoadSymbols(env, attempted, dels, fresh) : env \in LoadEnv(m) })

\* The code of TryLoadModuleSymbols before the lock, from outcome o of its code on:
\* the statics and the handle it leaves, then the lock or the return.
TryLoadModuleSymbols_Built(t, m, o) ==
    LET built == [op |-> "TryLoadModuleSymbols", symbols |-> o.symbols,
                  symbolStatus |-> o.symbolStatus, shouldLoad |-> o.shouldLoad,
                  loadCalls |-> o.loadCalls, loadHr |-> o.loadHr]
    IN  /\ attemptedSymbolReaderPreparation' = o.attempted
        /\ delegates' = o.delegates
        /\ prepareFailed' = (prepareFailed \/ (o.ran /\ FAILED(o.prepareHr)))
        /\ nextHandle' = IF o.symbols # 0 THEN nextHandle + 1 ELSE nextHandle
        /\ IF o.stage = "lock"
           THEN /\ pc' = [pc EXCEPT ![t] = "wait"]
                /\ call' = [call EXCEPT ![t] = [module |-> m] @@ built]
                /\ ret' = NoRet
                /\ disposed' = disposed
           ELSE /\ pc' = [pc EXCEPT ![t] = "idle"]
                /\ call' = [call EXCEPT ![t] = Idle]
                /\ ret' = built @@ [hr |-> o.hr, stage |-> o.stage]
                /\ disposed' = disposed \cup Dispose(o.symbols)

\* TryLoadModuleSymbols from its start.  A call that finds the latch of
\* PrepareSymbolReader unset stops past the test, before the body sets the latch;
\* any other call goes on to the lock or to its return.
TryLoadModuleSymbols_Begin(t, m) ==
    /\ Running
    /\ pc[t] = "idle"
    /\ \E o \in TryLoadModuleSymbolsPre(m, attemptedSymbolReaderPreparation, delegates,
                                        Fresh(nextHandle)) :
          IF o.ran
          THEN /\ pc' = [pc EXCEPT ![t] = "prepare"]
               /\ call' = [call EXCEPT ![t] = [op |-> "TryLoadModuleSymbols", module |-> m]]
               /\ ret' = NoRet
               /\ UNCHANGED <<statics, nextHandle, prepareFailed, disposed>>
          ELSE TryLoadModuleSymbols_Built(t, m, o)
    /\ UNCHANGED <<m_modulesInfo, m_modulesInfoMutex, refs, history>>

\* TryLoadModuleSymbols from the body of PrepareSymbolReader, which the thread
\* runs whatever the latch has become since it tested it, to the lock or to its
\* return.
TryLoadModuleSymbols_Prepare(t) ==
    /\ Running
    /\ pc[t] = "prepare"
    /\ call[t].op = "TryLoadModuleSymbols"
    /\ \E o \in TryLoadModuleSymbolsLoaded(
                    LoadSymbolsForModule(PrepareSymbolReaderBody(delegates),
                                         Fresh(nextHandle))) :
          TryLoadModuleSymbols_Built(t, call[t].module, o)
    /\ UNCHANGED <<m_modulesInfo, m_modulesInfoMutex, refs, history>>

\* The critical section of TryLoadModuleSymbols and the return.  A pair that is
\* not inserted is destroyed with the reader it holds.
TryLoadModuleSymbols_Insert(t) ==
    /\ Running
    /\ pc[t] = "cs"
    /\ call[t].op = "TryLoadModuleSymbols"
    /\ LET c == call[t]
           baseAddress == BaseOf(c.module)
           mdInfo == [addr |-> baseAddress, symbols |-> c.symbols, module |-> c.module]
           present == baseAddress \in Keys(m_modulesInfo)
       IN  /\ m_modulesInfo' \in MapInsert(m_modulesInfo, mdInfo)
           /\ disposed' = IF present THEN disposed \cup Dispose(c.symbols) ELSE disposed
           /\ refs' = IF present THEN Release(AddRef(refs, c.module), c.module)
                       ELSE AddRef(refs, c.module)
           /\ Return(t, c @@ [hr |-> S_OK, stage |-> "return", addr |-> baseAddress,
                              present |-> present, reused |-> baseAddress \in cleared])
           /\ registered' = [registered EXCEPT ![baseAddress] = c.module]
           /\ loadedAt' = IF ~present /\ c.symbolStatus = SymbolsLoaded
                          THEN loadedAt \cup {baseAddress} ELSE loadedAt
           /\ sinceClear' = FALSE
           /\ cleared' = cleared \ {baseAddress}
    /\ UNCHANGED <<statics, nextHandle, prepareFailed>>

\* ---------------------------------------------------------- CleanupAllModules

CleanupAllModules_Begin(t) ==
    /\ Running
    /\ pc[t] = "idle"
    /\ Acquire(t, [op |-> "CleanupAllModules"])
    /\ UNCHANGED registry

CleanupAllModules_Clear(t) ==
    /\ Running
    /\ pc[t] = "cs"
    /\ call[t].op = "CleanupAllModules"
    /\ m_modulesInfo' = MapClear(m_modulesInfo)
    /\ disposed' = disposed \cup (HandlesOf(m_modulesInfo) \ HandlesOf(m_modulesInfo'))
    /\ refs' = ReleaseRemoved(refs, m_modulesInfo, m_modulesInfo')
    /\ Return(t, [op |-> "CleanupAllModules", hr |-> S_OK])
    /\ registered' = [a \in Addresses |-> NoModule]
    /\ loadedAt' = loadedAt \cap Keys(m_modulesInfo')
    /\ sinceClear' = TRUE
    /\ cleared' = (cleared \cup Keys(m_modulesInfo)) \ Keys(m_modulesInfo')
    /\ UNCHANGED <<statics, nextHandle, prepareFailed>>

\* -------------------------------------------------------------- the lookups

\* The module of the entry m_modulesInfo.find(modAddress) yields, NoModule for end().
FoundAt(map, modAddress) ==
    IF Find(map, modAddress) = 0 THEN NoModule ELSE map[Find(map, modAddress)].module

\* GetLocationInAny takes the lock first.
GetLocationInAny_Begin(t) ==
    /\ Running
    /\ pc[t] = "idle"
    /\ Acquire(t, [op |-> "GetLocationInAny"])
    /\ UNCHANGED registry

GetLocationInAny_Body(t, full) ==
    /\ Running
    /\ pc[t] = "cs"
    /\ call[t].op = "GetLocationInAny"
    /\ \E ans \in [1..Len(m_modulesInfo) -> [addr : Hr2(full), resolve : Hr2(full), line : Hr3(full)]] :
          Return(t, [op |-> "GetLocationInAny", ans |-> ans]
                    @@ GetLocationInAny(m_modulesInfo, ans, delegates))
    /\ UNCHANGED registry

\* GetLocationInModule of pModule up to the lock: GetBaseAddress answers hr and
\* the base address of the module.
GetLocationInModule_Begin(t, full) ==
    /\ Running
    /\ pc[t] = "idle"
    /\ \E pModule \in Modules, hr \in Hr2(full) :
          LET c == [op |-> "GetLocationInModule", pModule |-> pModule,
                    modAddress |-> BaseOf(pModule)]
          IN  IF FAILED(hr)
              THEN ReturnEarly(t, c @@ [found |-> NoModule,
                                         ans |-> [resolve |-> "none", line |-> "none"]]
                                    @@ [NoLocation EXCEPT !.hr = hr])
              ELSE Acquire(t, c)
    /\ UNCHANGED registry

GetLocationInModule_Body(t, full) ==
    /\ Running
    /\ pc[t] = "cs"
    /\ call[t].op = "GetLocationInModule"
    /\ \E ans \in [resolve : Hr2(full), line : Hr3(full)] :
          Return(t, call[t] @@ [found |-> FoundAt(m_modulesInfo, call[t].modAddress),
                                ans |-> ans]
                    @@ GetLocationInModule(m_modulesInfo,
                                           Find(m_modulesInfo, call[t].modAddress),
                                           ans, delegates))
    /\ UNCHANGED registry

\* What GetFrameILAndSequencePoint leaves in sequencePoint when it fails: nothing.
NoPoint == [offset |-> -1, startLine |-> 0]

\* The tables GetSequencePoints yields to GetFrameILAndSequencePoint, and the
\* offsets GetIP yields.
FramePoints == << [offset |-> 0, startLine |-> 1], [offset |-> 2, startLine |-> 2] >>
PointsEnv(full) == IF full THEN { << >>, FramePoints } ELSE { FramePoints }
OffsetEnv(full) == IF full THEN {1, 2} ELSE {2}

\* The file names GetLineByILOffset writes to `name'; NoDocument is a document
\* that was not written.
DocumentEnv(full) == IF full THEN { "A.cs", "B.cs" } ELSE { "A.cs" }
NoDocument == ""

\* A result that overlooks what GetLineByILOffset returned: C22 does not hold of
\* it.
GetFrameILAndSequencePointAnyLine(i, gl, gs, points) ==
    IF i = 0 THEN E_FAIL
    ELSE IF FAILED(gs) THEN gs
    ELSE IF points = << >> THEN E_FAIL
    ELSE S_OK

\* What GetFrameILAndSequencePoint returns from the lock on: i is the index of the
\* entry found (0 for end()), gl and gs what GetLineByILOffset and
\* GetSequencePoints returned, points the table.
GetFrameILAndSequencePoint(i, gl, gs, points) ==
    IF i = 0 THEN E_FAIL
    ELSE IF FAILED(gl) THEN gl
    ELSE IF FAILED(gs) THEN gs
    ELSE IF points = << >> THEN E_FAIL
    ELSE S_OK

\* GetFrameILAndSequencePoint up to the lock: the queries of the frame answer hr,
\* ilOffset and modAddress.
GetFrameILAndSequencePoint_Begin(t, full) ==
    /\ Running
    /\ pc[t] = "idle"
    /\ \E modAddress \in Addresses, ilOffset \in OffsetEnv(full), hr \in Hr2(full) :
          LET c == [op |-> "GetFrameILAndSequencePoint", modAddress |-> modAddress,
                    ilOffset |-> ilOffset]
          IN  IF FAILED(hr)
              THEN ReturnEarly(t, c @@ [hr |-> hr, found |-> NoModule, points |-> << >>,
                                        sequencePoint |-> NoPoint, queried |-> {},
                                        ans |-> [line |-> "none", sp |-> "none",
                                                 name |-> NoDocument],
                                        document |-> NoDocument])
              ELSE Acquire(t, c)
    /\ UNCHANGED registry

GetFrameILAndSequencePoint_Body(t, full) ==
    /\ Running
    /\ pc[t] = "cs"
    /\ call[t].op = "GetFrameILAndSequencePoint"
    /\ \E line \in Hr3(full), sp \in Hr2(full), points \in PointsEnv(full),
          name \in DocumentEnv(full) :
          LET c == call[t]
              i == Find(m_modulesInfo, c.modAddress)
              gl == GetLineByILOffset(m_modulesInfo[i].symbols, delegates, line)
              gs == GetSequencePoints(m_modulesInfo[i].symbols, delegates, sp)
              hr == GetFrameILAndSequencePoint(i, gl, gs, points)
          IN  Return(t, c @@ [hr |-> hr, found |-> FoundAt(m_modulesInfo, c.modAddress),
                              points |-> IF i # 0 /\ SUCCEEDED(gl) /\ SUCCEEDED(gs)
                                         THEN points ELSE << >>,
                              sequencePoint |-> IF SUCCEEDED(hr)
                                                THEN NearestPoint(points, c.ilOffset)
                                                ELSE NoPoint,
                              queried |-> IF i = 0 THEN {}
                                          ELSE Queried(m_modulesInfo[i].symbols),
                              ans |-> [line |-> line, sp |-> sp, name |-> name],
                              document |-> IF SUCCEEDED(hr) THEN name ELSE NoDocument])
    /\ UNCHANGED registry

\* What GetActiveFrame and the queries of the frame answer to
\* GetStepRangeFromCurrentIP: GetActiveFrame fails, yields no frame, or yields a
\* frame whose queries answer hr.
StepFrameEnv(full) ==
    { [frame |-> "frame", hr |-> S_OK] }
    \cup IF full
         THEN { [frame |-> "failed", hr |-> E_FAIL], [frame |-> "null", hr |-> S_OK],
                [frame |-> "frame", hr |-> E_FAIL] }
         ELSE {}

\* The ranges GetStepRangesFromIP yields, and what GetILCode and GetSize answer.
StepCodeSize == 3
RangeEnv(full) == IF full THEN { <<1, 1>>, <<1, 2>> } ELSE { <<1, 1>> }
CodeEnv(full) == Hr2(full)

\* *range when GetStepRangeFromCurrentIP has not written it.
NoRange == << >>

GetStepRangeFromCurrentIP_Begin(t, full) ==
    /\ Running
    /\ pc[t] = "idle"
    /\ \E modAddress \in Addresses, f \in StepFrameEnv(full) :
          LET c == [op |-> "GetStepRangeFromCurrentIP", frame |-> f.frame,
                    modAddress |-> modAddress]
              early(hr) == c @@ [hr |-> hr, found |-> NoModule, providerHr |-> "none",
                                 provider |-> NoRange, codeHr |-> "none", range |-> NoRange,
                                 queried |-> {}]
          IN  IF f.frame = "failed" THEN ReturnEarly(t, early(f.hr))
              ELSE IF f.frame = "null" THEN ReturnEarly(t, early(E_FAIL))
              ELSE IF FAILED(f.hr) THEN ReturnEarly(t, early(f.hr))
              ELSE Acquire(t, c)
    /\ UNCHANGED registry

GetStepRangeFromCurrentIP_Body(t, full) ==
    /\ Running
    /\ pc[t] = "cs"
    /\ call[t].op = "GetStepRangeFromCurrentIP"
    /\ \E answer \in Hr2(full), provider \in RangeEnv(full), codeHr \in CodeEnv(full) :
          LET c == call[t]
              i == Find(m_modulesInfo, c.modAddress)
              gr == GetStepRangesFromIP(m_modulesInfo[i].symbols, delegates, answer)
              asked == provider[1] = provider[2]
              hr == IF i = 0 THEN E_FAIL
                    ELSE IF FAILED(gr) THEN gr
                    ELSE IF asked /\ FAILED(codeHr) THEN codeHr
                    ELSE S_OK
          IN  Return(t, c @@ [hr |-> hr, found |-> FoundAt(m_modulesInfo, c.modAddress),
                              providerHr |-> IF i = 0 THEN "none" ELSE gr,
                              provider |-> IF i # 0 /\ SUCCEEDED(gr) THEN provider ELSE NoRange,
                              codeHr |-> IF i # 0 /\ SUCCEEDED(gr) /\ asked
                                         THEN codeHr ELSE "none",
                              range |-> IF SUCCEEDED(hr)
                                        THEN << provider[1],
                                                StepRangeEnd(provider[1], provider[2],
                                                             StepCodeSize) >>
                                        ELSE NoRange,
                              queried |-> IF i = 0 THEN {}
                                          ELSE Queried(m_modulesInfo[i].symbols)])
    /\ UNCHANGED registry

\* GetFrameNamedLocalVariable up to the lock: GetBaseAddress answers hr and
\* modAddress.
GetFrameNamedLocalVariable_Begin(t, full) ==
    /\ Running
    /\ pc[t] = "idle"
    /\ \E modAddress \in Addresses, hr \in Hr2(full) :
          LET c == [op |-> "GetFrameNamedLocalVariable", modAddress |-> modAddress]
          IN  IF FAILED(hr)
              THEN ReturnEarly(t, c @@ [hr |-> hr, found |-> NoModule, queried |-> {}])
              ELSE Acquire(t, c)
    /\ UNCHANGED registry

GetFrameNamedLocalVariable_Body(t, full) ==
    /\ Running
    /\ pc[t] = "cs"
    /\ call[t].op = "GetFrameNamedLocalVariable"
    /\ \E answer \in Hr3(full) :
          LET c == call[t]
              i == Find(m_modulesInfo, c.modAddress)
          IN  Return(t, c @@ [hr |-> IF i = 0 THEN E_FAIL
                                     ELSE GetNamedLocalVariableAndScope(
                                              m_modulesInfo[i].symbols, delegates, answer),
                              found |-> FoundAt(m_modulesInfo, c.modAddress),
                              queried |-> IF i = 0 THEN {}
                                          ELSE Queried(m_modulesInfo[i].symbols)])
    /\ UNCHANGED registry

\* The file names callers ask GetModuleWithName for; NoName is the empty string.
Names == { NameOf(m) : m \in Modules }
NoName == 0

GetModuleWithName_Begin(t) ==
    /\ Running
    /\ pc[t] = "idle"
    /\ \E name \in Names : Acquire(t, [op |-> "GetModuleWithName", name |-> name])
    /\ UNCHANGED registry

GetModuleWithName_Body(t, full) ==
    /\ Running
    /\ pc[t] = "cs"
    /\ call[t].op = "GetModuleWithName"
    /\ \E names \in [1..Len(m_modulesInfo) -> Names \cup {NoName}] :
          /\ \A i \in 1..Len(m_modulesInfo) :
                \/ names[i] = NameOf(m_modulesInfo[i].module)
                \/ full /\ names[i] = NoName
          /\ Return(t, call[t] @@ GetModuleWithName(m_modulesInfo, names, call[t].name))
    /\ UNCHANGED registry

ForEachModule_Begin(t) ==
    /\ Running
    /\ pc[t] = "idle"
    /\ Acquire(t, [op |-> "ForEachModule"])
    /\ UNCHANGED registry

ForEachModule_Body(t, full) ==
    /\ Running
    /\ pc[t] = "cs"
    /\ call[t].op = "ForEachModule"
    /\ \E cbs \in [1..Len(m_modulesInfo) -> Hr2(full)] :
          Return(t, [op |-> "ForEachModule", cbs |-> cbs] @@ ForEachModule(m_modulesInfo, cbs))
    /\ UNCHANGED registry

\* ------------------------------------------------------------ specifications

\* One step of thread t against an environment that answers as `full' allows.
Step(t, full) ==
    \/ Lock(t)
    \/ \E m \in Modules : TryLoadModuleSymbols_Begin(t, m)
    \/ TryLoadModuleSymbols_Prepare(t)
    \/ TryLoadModuleSymbols_Insert(t)
    \/ CleanupAllModules_Begin(t)
    \/ CleanupAllModules_Clear(t)
    \/ GetLocationInAny_Begin(t)
    \/ GetLocationInAny_Body(t, full)
    \/ GetLocationInModule_Begin(t, full)
    \/ GetLocationInModule_Body(t, full)
    \/ GetFrameILAndSequencePoint_Begin(t, full)
    \/ GetFrameILAndSequencePoint_Body(t, full)
    \/ GetStepRangeFromCurrentIP_Begin(t, full)
    \/ GetStepRangeFromCurrentIP_Body(t, full)
    \/ GetFrameNamedLocalVariable_Begin(t, full)
    \/ GetFrameNamedLocalVariable_Body(t, full)
    \/ GetModuleWithName_Begin(t)
    \/ GetModuleWithName_Body(t, full)
    \/ ForEachModule_Begin(t)
    \/ ForEachModule_Body(t, full)

Next == \E t \in Threads : Step(t, FALSE)

Spec == Init /\ [][Next]_vars

NextSeq == Step(1, TRUE)

SpecSeq == Init /\ [][NextSeq]_vars

\* ------------------------------------------------- threads blocked on the lock

\* The calls that reach std::lock_guard's constructor with the code before it
\* done, when the target answers that code with success.
BlockedCalls ==
    { [op |-> "CleanupAllModules"], [op |-> "GetLocationInAny"], [op |-> "ForEachModule"] }
    \cup { [op |-> "GetModuleWithName", name |-> name] : name \in Names }
    \cup { [op |-> "GetLocationInModule", pModule |-> pModule, modAddress |-> BaseOf(pModule)] :
               pModule \in Modules }
    \cup { [op |-> "GetFrameNamedLocalVariable", modAddress |-> modAddress] :
               modAddress \in Addresses }
    \cup { [op |-> "GetFrameILAndSequencePoint", modAddress |-> modAddress,
             ilOffset |-> ilOffset] : modAddress \in Addresses, ilOffset \in OffsetEnv(FALSE) }
    \cup { [op |-> "GetStepRangeFromCurrentIP", frame |-> "frame", modAddress |-> modAddress] :
               modAddress \in Addresses }

\* std::lock_guard's constructor of a call that finds the lock held by another
\* thread: the thread blocks until Lock(t).
Block(t) ==
    /\ Running
    /\ pc[t] = "idle"
    /\ m_modulesInfoMutex # NoThread
    /\ \E c \in BlockedCalls :
          /\ pc' = [pc EXCEPT ![t] = "wait"]
          /\ call' = [call EXCEPT ![t] = c]
    /\ ret' = NoRet
    /\ UNCHANGED <<m_modulesInfoMutex, registry>>

\* The calls of the threads of SpecLive: those about the first module, its address
\* and its name.
LiveModules == { CHOOSE m \in Modules : \A n \in Modules : m <= n }
LiveArgument(r) ==
    /\ "modAddress" \in DOMAIN r => r.modAddress \in { BaseOf(m) : m \in LiveModules }
    /\ "name" \in DOMAIN r => r.name \in { NameOf(m) : m \in LiveModules }
LiveCall(c) ==
    /\ LiveArgument(c)
    /\ "module" \in DOMAIN c => c.module \in LiveModules
    /\ "pModule" \in DOMAIN c => c.pModule \in LiveModules

\* A step of a thread that runs in a critical section or in PrepareSymbolReader:
\* the calls it makes return.
Finish(t) == pc[t] \in {"cs", "prepare"} /\ Step(t, FALSE)

NextLive ==
    \E t \in Threads :
        /\ Step(t, FALSE) \/ Block(t)
        /\ pc[t] = "idle" => LiveCall(call'[t]) /\ LiveArgument(ret')

\* Threads that every call returns to, and a lock that a thread blocked on it takes
\* at some time if the lock is free time and again.
SpecLive ==
    /\ Init
    /\ [][NextLive]_vars
    /\ \A t \in Threads : WF_vars(Finish(t)) /\ SF_vars(Lock(t))

\* The scan of GetFrameILAndSequencePoint on its own: every table of at most
\* MaxPoints points in ascending order of offset and every current offset.
MaxPoints == 3
PointOffsets == 0..(2^(OffsetBits - 1) - 1)
AscendingOffsets ==
    { g \in UNION { [1..k -> PointOffsets] : k \in 1..MaxPoints } :
          \A i \in DOMAIN g : \A j \in DOMAIN g : i <= j => g[i] <= g[j] }
PointTables ==
    { [i \in DOMAIN g |-> [offset |-> g[i], startLine |-> i]] : g \in AscendingOffsets }

InitNearest ==
    /\ m_modulesInfo = << >>
    /\ m_modulesInfoMutex = NoThread
    /\ pc = [t \in Threads |-> "idle"]
    /\ call = [t \in Threads |-> Idle]
    /\ ret \in [op : {"scan"}, points : PointTables, ilOffset : ULONG32]
    /\ attemptedSymbolReaderPreparation = FALSE
    /\ delegates = {}
    /\ nextHandle = 1
    /\ prepareFailed = FALSE
    /\ disposed = {}
    /\ refs = [m \in Modules |-> 0]
    /\ registered = [a \in Addresses |-> NoModule]
    /\ loadedAt = {}
    /\ sinceClear = FALSE
    /\ cleared = {}

\* The scan applied to the table and the offset drawn.
NearestPoint_Apply ==
    /\ ret.op = "scan"
    /\ ret' = [op |-> "NearestPoint", points |-> ret.points, ilOffset |-> ret.ilOffset,
               sequencePoint |-> NearestPoint(ret.points, ret.ilOffset)]
    /\ UNCHANGED <<m_modulesInfoMutex, pc, call, registry>>

NextNearest == NearestPoint_Apply

SpecNearest == InitNearest /\ [][NextNearest]_vars

\* ------------------------------------------------------ Modules::GetModuleId

\* Strings are sequences of characters.
HexDigits == << "0", "1", "2", "3", "4", "5", "6", "7", "8", "9",
                "a", "b", "c", "d", "e", "f" >>

\* operator<< of an unsigned value under std::hex: its digits, as many as it has.
RECURSIVE Hex(_)
Hex(n) == IF n < 16 THEN << HexDigits[n + 1] >>
          ELSE Hex(n \div 16) \o << HexDigits[(n % 16) + 1] >>

\* A field written without padding: C19 does not hold of it.
SetWNone(w, str) == str

\* std::setfill('0') << std::setw(w) before a field: the field is filled on the
\* left up to w characters, and never cut.
SetW(w, str) == IF Len(str) >= w THEN str ELSE [i \in 1..(w - Len(str)) |-> "0"] \o str

\* static_cast<int>(b) & 0xFF
LowByte(b) == b % 256

\* The fields written from Data4[i] (counted from 1) on.
RECURSIVE Data4From(_, _)
Data4From(data4, i) ==
    IF i > Len(data4) THEN << >>
    ELSE SetW(2, Hex(LowByte(data4[i]))) \o Data4From(data4, i + 1)

\* What GetModuleId writes to ss for mvid.
ModuleIdString(mvid) ==
    SetW(8, Hex(mvid.Data1)) \o << "-" >>
    \o SetW(4, Hex(mvid.Data2)) \o << "-" >>
    \o SetW(4, Hex(mvid.Data3)) \o << "-" >>
    \o SetW(2, Hex(LowByte(mvid.Data4[1])))
    \o SetW(2, Hex(LowByte(mvid.Data4[2])))
    \o << "-" >>
    \o Data4From(mvid.Data4, 3)

\* GetModuleId: hr is the first failure among GetMetaDataInterface, QueryInterface
\* and GetScopeProps, or S_OK; id is left as it was when one of them fails.
GetModuleId(hr, mvid) ==
    IF FAILED(hr) THEN [hr |-> hr, id |-> << >>]
    ELSE [hr |-> S_OK, id |-> ModuleIdString(mvid)]

\* The identities GetScopeProps yields: Data1 is 32 bits wide, Data2 and Data3 16,
\* Data4 eight bytes.
Mvids ==
    [ Data1 : {0, 10, 43981, 2147483647},
      Data2 : {0, 256, 65535},
      Data3 : {1, 4095},
      Data4 : { <<0, 0, 0, 0, 0, 0, 0, 0>>, <<1, 35, 69, 103, 137, 171, 205, 239>>,
                <<255, 255, 255, 255, 255, 255, 255, 255>>, <<128, 9, 0, 16, 15, 254, 1, 160>> } ]

InitModuleId ==
    /\ m_modulesInfo = << >>
    /\ m_modulesInfoMutex = NoThread
    /\ pc = [t \in Threads |-> "idle"]
    /\ call = [t \in Threads |-> Idle]
    /\ ret \in [op : {"mvid"}, hr : Hr2(TRUE), mvid : Mvids]
    /\ attemptedSymbolReaderPreparation = FALSE
    /\ delegates = {}
    /\ nextHandle = 1
    /\ prepareFailed = FALSE
    /\ disposed = {}
    /\ refs = [m \in Modules |-> 0]
    /\ registered = [a \in Addresses |-> NoModule]
    /\ loadedAt = {}
    /\ sinceClear = FALSE
    /\ cleared = {}

\* GetModuleId applied to the answers drawn.
GetModuleId_Apply ==
    /\ ret.op = "mvid"
    /\ ret' = [op |-> "GetModuleId", mvid |-> ret.mvid] @@ GetModuleId(ret.hr, ret.mvid)
    /\ UNCHANGED <<m_modulesInfoMutex, pc, call, registry>>

NextModuleId == GetModuleId_Apply

SpecModuleId == InitModuleId /\ [][NextModuleId]_vars

\* ------------------------------------------------------------------ claims

Min(S) == CHOOSE x \in S : \A y \in S : x <= y
Max(S) == CHOOSE x \in S : \A y \in S : y <= x
Entries(map) == { map[i] : i \in 1..Len(map) }

\* C1: for a table that is not empty and ascends in offset, the scan of
\* GetFrameILAndSequencePoint yields a point at the current offset (read as a
\* signed number) if there is one, and it is the first of them; else the last point
\* before the current offset; else the first point of the table.
C1_NearestPoint ==
    ret.op = "NearestPoint" =>
        LET points == ret.points
            current == ToInt32(ret.ilOffset)
            at == { i \in 1..Len(points) : points[i].offset = current }
            before == { i \in 1..Len(points) : points[i].offset < current }
        IN  ret.sequencePoint =
                IF at # {} THEN points[Min(at)]
                ELSE IF before # {} THEN points[Max(before)]
                ELSE points[1]

\* C1, its case: three points, none at the current offset, and the one the scan
\* yields is the second, the last before the current offset.
C1_Witness ==
    /\ ret.op = "NearestPoint"
    /\ Len(ret.points) = 3
    /\ \A i \in 1..3 : ret.points[i].offset # ToInt32(ret.ilOffset)
    /\ ret.points[2].offset < ToInt32(ret.ilOffset)
    /\ ret.points[3].offset > ToInt32(ret.ilOffset)
    /\ ret.sequencePoint = ret.points[2]

AddressKeyed ==
    { "GetLocationInModule", "GetFrameILAndSequencePoint", "GetStepRangeFromCurrentIP",
      "GetFrameNamedLocalVariable" }

\* The provider of entry i answers both queries of GetLocationInAny with success,
\* given the answers the call drew.
ProviderResolves(i) ==
    /\ ResolveSequencePoint(m_modulesInfo[i].symbols, delegates, ret.ans[i].resolve) = S_OK
    /\ GetLineByILOffset(m_modulesInfo[i].symbols, delegates, ret.ans[i].line) = S_OK

\* C2: a call of GetLocationInAny that returns succeeds exactly when the provider
\* of some entry succeeds on ResolveSequencePoint and on GetLineByILOffset, and
\* then the module, the token and offset, and the full name it yields are those of
\* the first such entry in iteration order; no failure at an earlier entry makes
\* the call fail.
C2_FirstResolvingModule ==
    (ret.op = "GetLocationInAny" /\ ret.hr # ABORT) =>
        LET resolving == { i \in 1..Len(m_modulesInfo) :
                               SUCCEEDED(ret.ans[i].addr) /\ ProviderResolves(i) }
        IN  /\ SUCCEEDED(ret.hr) <=> resolving # {}
            /\ resolving # {} =>
                   /\ ret.module = m_modulesInfo[Min(resolving)].module
                   /\ ret.token = m_modulesInfo[Min(resolving)].symbols
                   /\ ret.fullname = m_modulesInfo[Min(resolving)].symbols

\* C3: GetStepRangeFromCurrentIP yields the range of the provider, with the end
\* replaced by the size of the code when the range is empty; it succeeds whenever
\* the provider and, where it is asked, the code answer; without an active frame,
\* and on every failure, it fails and writes no range.
C3_StepRange ==
    ret.op = "GetStepRangeFromCurrentIP" =>
        /\ ret.frame # "frame" => FAILED(ret.hr)
        /\ FAILED(ret.hr) => ret.range = NoRange
        /\ SUCCEEDED(ret.hr) =>
               /\ ret.provider # NoRange
               /\ ret.range = IF ret.provider[1] = ret.provider[2]
                              THEN << ret.provider[1], StepCodeSize >>
                              ELSE ret.provider
        /\ (ret.providerHr = S_OK /\ ret.codeHr # E_FAIL) => SUCCEEDED(ret.hr)

\* C3, its case: the provider yielded the empty range [1, 1) and the call the
\* range up to the size of the code.
C3_Witness ==
    /\ ret.op = "GetStepRangeFromCurrentIP"
    /\ SUCCEEDED(ret.hr)
    /\ ret.provider = <<1, 1>>
    /\ ret.range = <<1, StepCodeSize>>

\* C4: from the return of CleanupAllModules to the next insertion the registry
\* is empty: every lookup by address fails and finds no entry, GetLocationInAny
\* and GetModuleWithName fail, ForEachModule visits no module, and no handle is
\* reached through the registry.
C4_ClearedLookupsFail ==
    sinceClear =>
        /\ Len(m_modulesInfo) = 0
        /\ HandlesOf(m_modulesInfo) = {}
        /\ ret.op \in AddressKeyed => FAILED(ret.hr) /\ ret.found = NoModule
        /\ ret.op \in {"GetLocationInAny", "GetModuleWithName"} =>
               FAILED(ret.hr) /\ ret.module = NoModule
        /\ ret.op = "ForEachModule" => ret.visited = 0

\* C4, its case: a lookup has just failed at an address whose entry, which held
\* a handle, CleanupAllModules removed.
C4_Witness ==
    /\ sinceClear
    /\ ret.op = "GetLocationInModule"
    /\ ret.modAddress \in cleared
    /\ disposed # {}
    /\ FAILED(ret.hr)

\* C5: a lookup by address that took the lock after a call of
\* TryLoadModuleSymbols for a module at the address returned S_OK, with no
\* CleanupAllModules between, finds the entry of that module.
C5_LookupFindsRegistered ==
    (ret.op \in AddressKeyed /\ registered[ret.modAddress] # NoModule) =>
        ret.found = registered[ret.modAddress]

\* C6: the entry under the address of a module for which TryLoadModuleSymbols
\* returned S_OK since the last CleanupAllModules holds that module, and when the
\* call returns it holds the reader the call built.
C6_EntryIsTheOneBuilt ==
    /\ \A a \in Addresses :
          registered[a] # NoModule => FoundAt(m_modulesInfo, a) = registered[a]
    /\ (ret.op = "TryLoadModuleSymbols" /\ ret.stage = "return" /\ SUCCEEDED(ret.hr)) =>
          [addr |-> ret.addr, symbols |-> ret.symbols, module |-> ret.module]
              \in Entries(m_modulesInfo)

\* C7: a call of TryLoadModuleSymbols that finds the address of the module in the
\* registry returns a failure.
C7_DuplicateFails ==
    (ret.op = "TryLoadModuleSymbols" /\ ret.stage = "return" /\ ret.present) =>
        FAILED(ret.hr)

\* C8: a call of TryLoadModuleSymbols that reaches the registry and does not find
\* the address of the module in it (no module was registered there, or
\* CleanupAllModules removed the entry) returns S_OK, adds the entry it built and
\* leaves every other entry in place, each found under its address.
C8_InsertAtFreeAddress ==
    [][ (ret'.op = "TryLoadModuleSymbols" /\ ret'.stage = "return" /\ ~ret'.present) =>
            /\ SUCCEEDED(ret'.hr)
            /\ Entries(m_modulesInfo') =
                   Entries(m_modulesInfo)
                   \cup { [addr |-> ret'.addr, symbols |-> ret'.symbols,
                           module |-> ret'.module] }
            /\ \A e \in Entries(m_modulesInfo') :
                   m_modulesInfo'[Find(m_modulesInfo', e.addr)] = e ]_vars

\* C8, its case: after CleanupAllModules removed the entry at the address, a call
\* has inserted a module there, beside the entry at another address.
C8_Witness ==
    /\ ret.op = "TryLoadModuleSymbols"
    /\ ret.stage = "return"
    /\ ~ret.present
    /\ ret.reused
    /\ Len(m_modulesInfo) = 2

\* C9: the registry holds at most one entry per address, and the reader of an
\* entry holds a handle exactly when the call that inserted the entry set
\* symbolStatus to SymbolsLoaded.
C9_OneEntryAndHandleIffLoaded ==
    /\ Cardinality(Keys(m_modulesInfo)) = Len(m_modulesInfo)
    /\ \A e \in Entries(m_modulesInfo) : (e.symbols # 0) <=> (e.addr \in loadedAt)

\* C9, its case: an entry with a handle beside an entry without one.
C9_Witness ==
    /\ Len(m_modulesInfo) = 2
    /\ \E e \in Entries(m_modulesInfo) : e.symbols # 0
    /\ \E e \in Entries(m_modulesInfo) : e.symbols = 0

\* C10: a call of TryLoadModuleSymbols that got the metadata of the module sets
\* symbolStatus to SymbolsSkipped exactly when ShouldLoadSymbolsForModule rejected
\* the path, and then has not called LoadSymbols; to SymbolsNotFound exactly when
\* it accepted the path and LoadSymbols failed; to SymbolsLoaded exactly when it
\* accepted the path and LoadSymbols succeeded; it calls LoadSymbols at most once.
C10_SymbolStatus ==
    (ret.op = "TryLoadModuleSymbols" /\ ret.stage # "metadata") =>
        /\ ret.symbolStatus = SymbolsSkipped <=> ~ret.shouldLoad
        /\ ~ret.shouldLoad => ret.loadCalls = 0
        /\ ret.symbolStatus = SymbolsNotFound <=> (ret.shouldLoad /\ ret.loadHr = E_FAIL)
        /\ ret.symbolStatus = SymbolsLoaded <=> (ret.shouldLoad /\ ret.loadHr = S_OK)
        /\ ret.loadCalls <= 1

\* C10, its case: a call has returned S_OK for a module whose symbols LoadSymbols
\* did not find.
C10_Witness ==
    /\ ret.op = "TryLoadModuleSymbols"
    /\ ret.stage = "return"
    /\ ret.shouldLoad
    /\ ret.loadCalls = 1
    /\ ret.symbolStatus = SymbolsNotFound

\* C11: a call of TryLoadModuleSymbols that registers a module that is dynamic or
\* in memory leaves its reader without a handle and sets symbolStatus to
\* SymbolsNotFound or SymbolsSkipped.
C11_NoSymbolsForInMemory ==
    (/\ ret.op = "TryLoadModuleSymbols"
     /\ ret.stage = "return"
     /\ IsDynamic(ret.module) \/ IsInMemory(ret.module)) =>
        /\ ret.symbols = 0
        /\ ret.symbolStatus \in {SymbolsNotFound, SymbolsSkipped}

\* C12: a call of TryLoadModuleSymbols for a module whose metadata the target does
\* not yield returns S_OK with symbolStatus SymbolsSkipped and inserts an entry for
\* the module.
C12_RegisteredWithoutMetadata ==
    [][ (ret'.op = "TryLoadModuleSymbols" /\ ret'.stage = "metadata") =>
            /\ SUCCEEDED(ret'.hr)
            /\ ret'.symbolStatus = SymbolsSkipped
            /\ Len(m_modulesInfo') = Len(m_modulesInfo) + 1 ]_vars

\* C13: the body of PrepareSymbolReader runs at most once: every thread that runs
\* it finds the latch unset when it starts the body.
C13_PrepareBodyOnce ==
    [][ \A t \in Threads :
            (pc[t] = "prepare" /\ pc'[t] # "prepare") =>
                ~attemptedSymbolReaderPreparation ]_vars

\* C14: once a run of PrepareSymbolReader has returned a failure, no call of
\* LoadSymbols gets a handle from the managed reader, so none succeeds and no
\* module registered afterwards has symbolStatus SymbolsLoaded.
C14_PrepareFailureIsPermanent ==
    [][ prepareFailed => nextHandle' = nextHandle ]_vars
\* The operations that pass the handle of a registered record to the provider.
ProviderLookups ==
    { "GetLocationInAny", "GetLocationInModule", "GetFrameILAndSequencePoint",
      "GetStepRangeFromCurrentIP", "GetFrameNamedLocalVariable" }

\* C15: a step in which a lookup passes handles to the provider is taken by a
\* thread that holds the registry lock and is in the critical section of that
\* lookup (it found the records in the same step), and each handle belongs to a
\* record that is in the registry and whose provider has not been destroyed.
C15_QueriesUnderLock ==
    [][ (ret'.op \in ProviderLookups /\ ret'.queried # {})
        => \E t \in Threads :
              /\ pc[t] = "cs" /\ pc'[t] # "cs"
              /\ m_modulesInfoMutex = t
              /\ call[t].op = ret'.op
              /\ ret'.queried \subseteq HandlesOf(m_modulesInfo)
              /\ ret'.queried \cap disposed = {} ]_vars

\* A lookup has queried the provider of a record while providers of removed
\* records have been destroyed and another thread is waiting for the lock.
C15_Witness ==
    /\ ret.op \in ProviderLookups
    /\ ret.queried # {}
    /\ disposed # {}
    /\ \E t \in Threads : pc[t] = "wait"

\* C16: the state that threads share and change (the registry map, and the static
\* latch and delegates of SymbolReader) is changed only by a step of the thread
\* that holds the registry lock, in its critical section.
C16_SharedStateUnderLock ==
    [][ (m_modulesInfo' # m_modulesInfo \/ statics' # statics)
        => \E t \in Threads :
              /\ m_modulesInfoMutex = t
              /\ pc[t] = "cs" /\ pc'[t] # "cs" ]_vars

\* C17: ForEachModule calls the callback with the module of every entry, once
\* each and in iteration order, and returns S_OK when no call fails; else it stops
\* at the first call that fails, having called the callback for the entries up to
\* that one only, and returns what that call returned; it leaves the registry as
\* it found it.
C17_ForEachModule ==
    [][ (ret'.op = "ForEachModule"
         /\ \E t \in Threads : call[t].op = "ForEachModule" /\ pc[t] = "cs" /\ pc'[t] # "cs")
        => LET cbs == ret'.cbs
               n == Len(m_modulesInfo)
               failing == { i \in 1..n : FAILED(cbs[i]) }
               last == IF failing = {} THEN n ELSE Min(failing)
           IN  /\ m_modulesInfo' = m_modulesInfo
               /\ ret'.hr = IF failing = {} THEN S_OK ELSE cbs[last]
               /\ Len(ret'.calls) = last
               /\ \A i \in 1..last : ret'.calls[i] = m_modulesInfo[i].module
               /\ \A i, j \in 1..last : ret'.calls[i] = ret'.calls[j] => i = j ]_vars

\* ForEachModule has stopped at the first of two entries, whose callback failed.
C17_Witness ==
    /\ ret.op = "ForEachModule"
    /\ Len(m_modulesInfo) = 2
    /\ FAILED(ret.cbs[1])
    /\ ret.calls = << m_modulesInfo[1].module >>
    /\ FAILED(ret.hr)

\* The handles of the entries that hold module m.
HandlesOfModule(map, m) == { map[i].symbols : i \in { j \in 1..Len(map) : map[j].module = m } } \ {0}

\* C18: GetLocationInModule of a module returns a failure when GetBaseAddress
\* fails, when nothing is registered at the address of the module, when the
\* reader of the entry holds no handle, and when ResolveSequencePoint or
\* GetLineByILOffset fails on it; when it returns S_OK both queries succeeded on a
\* reader that holds a handle; and when the module is the one registered at its
\* address, the only handles it passes to the provider are those of that module.
C18_GetLocationInModule ==
    ret.op = "GetLocationInModule" =>
        LET m == ret.pModule
            i == Find(m_modulesInfo, ret.modAddress)
        IN  /\ ret.ans.resolve = "none" => FAILED(ret.hr) /\ ret.queried = {}
            /\ ret.ans.resolve # "none" =>
                  /\ i = 0 => FAILED(ret.hr) /\ ret.queried = {}
                  /\ registered[ret.modAddress] = NoModule => FAILED(ret.hr)
                  /\ i # 0 =>
                        /\ m_modulesInfo[i].symbols = 0 => FAILED(ret.hr)
                        /\ FAILED(ret.ans.resolve) => FAILED(ret.hr)
                        /\ FAILED(ret.ans.line) => FAILED(ret.hr)
                        /\ SUCCEEDED(ret.hr) =>
                              /\ m_modulesInfo[i].symbols # 0
                              /\ SUCCEEDED(ret.ans.resolve) /\ SUCCEEDED(ret.ans.line)
                  /\ registered[ret.modAddress] = m =>
                        ret.queried \subseteq HandlesOfModule(m_modulesInfo, m)

\* The value a string of hexadecimal digits denotes; a character that is not a
\* lowercase hexadecimal digit denotes nothing (-1).
DigitValue(ch) ==
    IF \E d \in 1..16 : HexDigits[d] = ch THEN (CHOOSE d \in 1..16 : HexDigits[d] = ch) - 1
    ELSE -1

RECURSIVE HexValue(_)
HexValue(str) ==
    IF str = << >> THEN 0
    ELSE LET front == HexValue(SubSeq(str, 1, Len(str) - 1))
             d == DigitValue(str[Len(str)])
         IN  IF front < 0 \/ d < 0 THEN -1 ELSE front * 16 + d

\* The positions of the hyphens of a string, and the lengths of the groups they
\* separate.
HyphensOf(str) == { i \in 1..Len(str) : str[i] = "-" }

RECURSIVE GroupLengthsFrom(_, _, _)
GroupLengthsFrom(str, i, n) ==
    IF i > Len(str) THEN << n >>
    ELSE IF str[i] = "-" THEN << n >> \o GroupLengthsFrom(str, i + 1, 0)
    ELSE GroupLengthsFrom(str, i + 1, n + 1)

GroupLengths(str) == GroupLengthsFrom(str, 1, 0)

\* C19 (as amended): the string GetModuleId yields has 36 characters, hyphens at
\* positions 9, 14, 19 and 24 and nowhere else, so groups of 8, 4, 4, 4 and 12
\* digits; every other character is a lowercase hexadecimal digit; and the groups
\* denote Data1, Data2, Data3, Data4[0..1] and Data4[2..7], each filled with zeros
\* on the left, so that the string depends on the identity only and identities
\* that differ yield strings that differ.
C19_ModuleIdCanonical ==
    (ret.op = "GetModuleId" /\ SUCCEEDED(ret.hr)) =>
        LET id == ret.id
            mvid == ret.mvid
        IN  /\ Len(id) = 36
            /\ HyphensOf(id) = {9, 14, 19, 24}
            /\ GroupLengths(id) = <<8, 4, 4, 4, 12>>
            /\ HexValue(SubSeq(id, 1, 8)) = mvid.Data1
            /\ HexValue(SubSeq(id, 10, 13)) = mvid.Data2
            /\ HexValue(SubSeq(id, 15, 18)) = mvid.Data3
            /\ \A k \in 1..2 : HexValue(SubSeq(id, 18 + 2 * k, 19 + 2 * k)) = mvid.Data4[k]
            /\ \A k \in 3..8 : HexValue(SubSeq(id, 19 + 2 * k, 20 + 2 * k)) = mvid.Data4[k]

\* GetModuleId has formatted an identity whose fields have leading zero digits.
C19_Witness ==
    /\ ret.op = "GetModuleId"
    /\ SUCCEEDED(ret.hr)
    /\ ret.mvid.Data1 = 10
    /\ ret.mvid.Data4[2] = 9
    /\ SubSeq(ret.id, 1, 8) = << "0", "0", "0", "0", "0", "0", "0", "a" >>

\* C19 (as stated): the string GetModuleId yields is made of groups of 8, 4, 4,
\* 2, 2 and 6 hexadecimal digits separated by hyphens.
C19_GroupsAsStated ==
    (ret.op = "GetModuleId" /\ SUCCEEDED(ret.hr)) =>
        GroupLengths(ret.id) = <<8, 4, 4, 2, 2, 6>>

\* The handles of the readers that calls of TryLoadModuleSymbols hold before the
\* lock.
HandlesInCalls ==
    { call[t].symbols : t \in { u \in Threads : call[u].op = "TryLoadModuleSymbols"
                                                 /\ pc[u] \in {"wait", "cs"} } } \ {0}

\* C20: the references Modules holds on a module are one for each entry of the
\* registry that holds the module (none once a call of TryLoadModuleSymbols that
\* did not insert has returned, none once CleanupAllModules has returned);
\* GetLocationInAny and GetModuleWithName call AddRef once, on the module they
\* hand to the caller, when they return S_OK and never when they fail; and every
\* reader built is in an entry, held by a call in progress, or destroyed, the
\* readers of the entries being none of the destroyed.
C20_ReferencesBalanced ==
    /\ \A m \in Modules : refs[m] = Held(m_modulesInfo, m)
    /\ ret.op \in {"GetLocationInAny", "GetModuleWithName"} =>
          IF SUCCEEDED(ret.hr)
          THEN ret.module # NoModule /\ ret.addRefs = << ret.module >>
          ELSE ret.addRefs = << >>
    /\ ret.op = "CleanupAllModules" => \A m \in Modules : refs[m] = 0
    /\ HandlesOf(m_modulesInfo) \cap disposed = {}
    /\ \A h \in 1..(nextHandle - 1) :
          h \in HandlesOf(m_modulesInfo) \cup HandlesInCalls \cup disposed

\* A call of TryLoadModuleSymbols has found the address of its module taken and
\* destroyed the pair it built, with a reader that held a handle.
C20_Witness ==
    /\ ret.op = "TryLoadModuleSymbols"
    /\ ret.stage = "return"
    /\ ret.present
    /\ ret.symbols # 0
    /\ ret.symbols \in disposed
    /\ refs[ret.module] = 0

C22_GetFrameILAndSequencePoint ==
    (ret.op = "GetFrameILAndSequencePoint" /\ SUCCEEDED(ret.hr)) =>
        LET i == Find(m_modulesInfo, ret.modAddress)
        IN  /\ i # 0
            /\ ret.found = m_modulesInfo[i].module
            /\ m_modulesInfo[i].symbols # 0
            /\ SUCCEEDED(ret.ans.line)
            /\ SUCCEEDED(ret.ans.sp)
            /\ ret.points # << >>
            /\ ret.document = ret.ans.name
            /\ \E k \in 1..Len(ret.points) :
                  /\ ret.sequencePoint = ret.points[k]
                  /\ k = 1 \/ ret.points[k].offset <= ret.ilOffset

\* GetFrameILAndSequencePoint has returned the point before the offset of the
\* frame with the file name of the line at the offset.
C22_Witness ==
    /\ ret.op = "GetFrameILAndSequencePoint"
    /\ SUCCEEDED(ret.hr)
    /\ ret.document = "B.cs"
    /\ ret.ilOffset = 1
    /\ ret.sequencePoint.offset = 0

\* C23: no lookup passes a handle to a delegate that is not bound: the assertion
\* before the call of the delegate holds in every query of every lookup.
C23_DelegatesBound ==
    /\ ret.op \in ProviderLookups => ret.hr # ABORT
    /\ \A t \in Threads : pc[t] # "aborted"

\* C24: the steps of a call of TryLoadModuleSymbols that returns a failure (the
\* step into PrepareSymbolReader, if it takes one, and the step that returns)
\* leave the registry and the references to the modules as they are, and the
\* reader the call built, if it holds a handle, is destroyed and in no entry.
C24_FailedRegisterLeavesRegistry ==
    [][ \A t \in Threads :
          \/ (pc[t] = "idle" /\ pc'[t] = "prepare")
          \/ (/\ pc[t] \in {"idle", "prepare"} /\ pc'[t] = "idle"
              /\ ret'.op = "TryLoadModuleSymbols" /\ FAILED(ret'.hr))
          => /\ m_modulesInfo' = m_modulesInfo
             /\ refs' = refs
             /\ pc'[t] = "idle" /\ ret'.symbols # 0
                   => /\ ret'.symbols \in disposed'
                      /\ ret'.symbols \notin HandlesOf(m_modulesInfo') ]_vars

\* A call of TryLoadModuleSymbols has loaded symbols, failed at the identity of
\* the module and returned, with modules registered.
C24_Witness ==
    /\ ret.op = "TryLoadModuleSymbols"
    /\ FAILED(ret.hr)
    /\ ret.stage = "identity"
    /\ ret.symbols # 0
    /\ ret.symbols \in disposed
    /\ Len(m_modulesInfo) > 0

====
